---- MODULE Spec2Model ----
(***************************************************************************)
(* Model of the native shell of MerMark Editor (src-tauri/src/lib.rs):     *)
(* the open-file slot, the window-id counter, the window registry the host *)
(* keeps, the commands the content layer invokes and the two host          *)
(* callbacks (single-instance relaunch, close request).                    *)
(*                                                                         *)
(* Strings are sequences of one-character strings, so that ends_with,      *)
(* format! and urlencoding::encode are computed, not assumed.              *)
(* Option<T> is a sequence of length 0 (None) or 1 (Some).                 *)
(* Result<T,E> is <<"Ok", t>> or <<"Err", e>>.                             *)
(***************************************************************************)
EXTENDS Naturals, Sequences, FiniteSets

VARIABLES
    phase,      \* "setup" (built, setup closure not yet run), "running", "exited"
    openFile,   \* OpenFileState: Option<String>
    counter,    \* WINDOW_COUNTER: AtomicU32
    windows,    \* the host's registry: live label -> initial navigation target
    calls,      \* create_new_window invocations past fetch_add, not yet built
    last,       \* what the handler step that ran last did and returned
    allocated,  \* history: the ids fetch_add handed out, in allocation order
    destroyed,  \* history: labels of windows that were live and no longer are
    launch,     \* history: Option of the argument list the setup closure saw
    stored,     \* history: the values written to OpenFileState, in order
    taken       \* history: the non-empty values get_open_file_path returned

vars == <<phase, openFile, counter, windows, calls, last, allocated, destroyed,
          launch, stored, taken>>

----------------------------------------------------------------------------
(* Bounds of the model *)

\* create_new_window invocations that may allocate an id in one run
MaxCreate == 2

----------------------------------------------------------------------------
(* Values *)

None == <<>>

Some(x) == <<x>>

Ok(x) == <<"Ok", x>>

Err(e) == <<"Err", e>>

Unit == <<>>

----------------------------------------------------------------------------
(* Strings *)

Main == <<"m", "a", "i", "n">>

WindowPrefix == <<"w", "i", "n", "d", "o", "w", "-">>

IndexHtml == <<"i", "n", "d", "e", "x", ".", "h", "t", "m", "l">>

FileQuery == <<"?", "f", "i", "l", "e", "=">>

ExtMd == <<".", "m", "d">>

ExtMarkdown == <<".", "m", "a", "r", "k", "d", "o", "w", "n">>

DigitChars == <<"0", "1", "2", "3", "4", "5", "6", "7", "8", "9">>

\* Display of a u32 in format!("{}")
RECURSIVE Decimal(_)
Decimal(n) ==
    IF n < 10 THEN <<DigitChars[n + 1]>>
    ELSE Decimal(n \div 10) \o <<DigitChars[(n % 10) + 1]>>

\* str::ends_with
EndsWith(s, suffix) ==
    /\ Len(s) >= Len(suffix)
    /\ SubSeq(s, Len(s) - Len(suffix) + 1, Len(s)) = suffix

\* faulty variant: ".markdown" is not recognised
IsMarkdownPathMdOnly(p) == EndsWith(p, ExtMd)

\* faulty variant: the suffixes are matched without their dot
IsMarkdownPathNoDot(p) == EndsWith(p, Tail(ExtMd)) \/ EndsWith(p, Tail(ExtMarkdown))

\* file_path.ends_with(".md") || file_path.ends_with(".markdown")
IsMarkdownPath(p) == EndsWith(p, ExtMd) \/ EndsWith(p, ExtMarkdown)

\* faulty variant: the first id is given the label "main"
WindowLabelMainFirst(id) == IF id = 1 THEN Main ELSE WindowPrefix \o Decimal(id)

\* format!("window-{}", window_id)
WindowLabel(id) == WindowPrefix \o Decimal(id)

----------------------------------------------------------------------------
(* Argument lists the operating system may hand over: args[0] is the       *)
(* program, in TLA+ args[1]; the code's args[1] is args[2] here.           *)

Program == <<"m", "e", "r", "m", "a", "r", "k">>

NotesMd == <<"n", "o", "t", "e", "s", ".", "m", "d">>

NotesTxt == <<"n", "o", "t", "e", "s", ".", "t", "x", "t">>

NotesMdUpper == <<"N", "O", "T", "E", "S", ".", "M", "D">>

ReportMarkdown ==
    <<"r", "e", "p", "o", "r", "t", ".", "m", "a", "r", "k", "d", "o", "w", "n">>

\* ends in "md" without the dot
Cmd == <<"c", "m", "d">>

ArgLists ==
    { <<Program>>,
      <<Program, NotesMd>>,
      <<Program, ReportMarkdown>>,
      <<Program, NotesTxt>>,
      <<Program, NotesMdUpper>>,
      <<Program, Cmd>>,
      <<Program, NotesTxt, NotesMd>> }

----------------------------------------------------------------------------
(* The host runtime, as the code uses it *)

\* app.webview_windows().len()
WindowCount(reg) == Cardinality(DOMAIN reg)

\* app.get_webview_window(label)
GetWebviewWindow(reg, label) == IF label \in DOMAIN reg THEN Some(label) ELSE None

\* the registry after the host has built a window
Insert(reg, label, url) ==
    [l \in DOMAIN reg \cup {label} |-> IF l = label THEN url ELSE reg[l]]

\* the registry after the host has destroyed a window
Remove(reg, label) == [l \in DOMAIN reg \ {label} |-> reg[l]]

\* e.to_string() of an error of the host runtime
HostError == <<"h", "o", "s", "t">>

\* what a host call that may fail reports
Outcomes == {"ok", "failed"}

----------------------------------------------------------------------------
(* State after construction: the builder has run .manage(OpenFileState(    *)
(* Mutex::new(None))) and .build(); the host has created the window        *)
(* "main" of the application's configuration (the one lines 107, 114 and   *)
(* 141 look up); the setup closure has not run yet.                        *)

NoOp == [op |-> "none", arg |-> <<>>, ret |-> <<>>, focusReq |-> <<>>,
         emitted |-> <<>>, failed |-> {}, prevented |-> FALSE]

Init ==
    /\ phase = "setup"
    /\ openFile = None
    /\ counter = 1
    /\ windows = [l \in {Main} |-> IndexHtml]
    /\ calls = {}
    /\ last = NoOp
    /\ allocated = <<>>
    /\ destroyed = {}
    /\ launch = None
    /\ stored = <<>>
    /\ taken = <<>>

\* The record of a handler step: the operation, its arguments, what it
\* returned, the windows it asked the host to focus, the events the host
\* delivered for it, the host calls that failed, and whether it called
\* api.prevent_close().
Done(op, arg, ret, focusReq, emitted, failed, prevented) ==
    [op |-> op, arg |-> arg, ret |-> ret, focusReq |-> focusReq,
     emitted |-> emitted, failed |-> failed, prevented |-> prevented]

\* the host calls among `made` that failed
Failed(made) == {c \in DOMAIN made : made[c] = "failed"}

----------------------------------------------------------------------------
(* Host calls whose Result the code inspects or discards *)

\* window.emit(event, payload): the events the host delivers for the call
Emit(label, event, payload, outcome) ==
    IF outcome = "ok"
    THEN <<[to |-> label, event |-> event, payload |-> payload]>>
    ELSE <<>>

----------------------------------------------------------------------------
(* .setup(|app| ...): launch intake *)

\* the value of OpenFileState after the setup closure has seen args
LaunchIntake(slot, args) ==
    IF Len(args) > 1
    THEN IF IsMarkdownPath(args[2]) THEN Some(args[2]) ELSE slot
    ELSE slot

Setup(args) ==
    /\ phase = "setup"
    /\ phase' = "running"
    /\ openFile' = LaunchIntake(openFile, args)
    /\ stored' = stored \o LaunchIntake(None, args)
    /\ launch' = Some(args)
    /\ last' = Done("setup", args, Ok(Unit), <<>>, <<>>, {}, FALSE)
    /\ UNCHANGED <<counter, windows, calls, allocated, destroyed, taken>>

----------------------------------------------------------------------------
(* get_open_file_path: lock, Option::take, unlock *)

\* faulty variant: the value is read but not cleared (clone instead of take)
TakeWithoutClear(slot) == [ret |-> slot, left |-> slot]

\* path.take(): the value returned and the value left behind
Take(slot) == [ret |-> slot, left |-> None]

GetOpenFilePath ==
    /\ phase = "running"
    /\ last' = Done("get_open_file_path", <<>>, Take(openFile).ret, <<>>, <<>>,
                    {}, FALSE)
    /\ openFile' = Take(openFile).left
    /\ taken' = taken \o Take(openFile).ret
    /\ UNCHANGED <<phase, counter, windows, calls, allocated, destroyed, launch,
                   stored>>

----------------------------------------------------------------------------
(* create_new_window *)

\* u32::MAX, tested by halves: 2^32 is beyond the integers TLC computes with
IsU32Max(c) == c \div 65536 = 65535 /\ c % 65536 = 65535

\* faulty variant: the counter is read but not advanced (load instead of fetch_add)
FetchAddNoIncrement(c) == [old |-> c, new |-> c]

\* WINDOW_COUNTER.fetch_add(1, Ordering::SeqCst): the previous value is
\* returned and the counter wraps around at 2^32
FetchAdd(c) == [old |-> c, new |-> IF IsU32Max(c) THEN 0 ELSE c + 1]

Lower ==
    {"a", "b", "c", "d", "e", "f", "g", "h", "i", "j", "k", "l", "m",
     "n", "o", "p", "q", "r", "s", "t", "u", "v", "w", "x", "y", "z"}

Upper ==
    {"A", "B", "C", "D", "E", "F", "G", "H", "I", "J", "K", "L", "M",
     "N", "O", "P", "Q", "R", "S", "T", "U", "V", "W", "X", "Y", "Z"}

Digits == {DigitChars[i] : i \in 1 .. 10}

\* the bytes urlencoding::encode leaves alone
Unreserved == Lower \cup Upper \cup Digits \cup {"-", "_", ".", "~"}

\* %XX of the ASCII characters the model's paths use
PercentCode(ch) ==
    CASE ch = " " -> <<"%", "2", "0">>
      [] ch = "/" -> <<"%", "2", "F">>
      [] ch = "%" -> <<"%", "2", "5">>
      [] ch = "&" -> <<"%", "2", "6">>
      [] ch = "=" -> <<"%", "3", "D">>
      [] ch = "?" -> <<"%", "3", "F">>

\* urlencoding::encode
RECURSIVE UrlEncode(_)
UrlEncode(str) ==
    IF str = <<>> THEN <<>>
    ELSE (IF Head(str) \in Unreserved THEN <<Head(str)>> ELSE PercentCode(Head(str)))
         \o UrlEncode(Tail(str))

\* faulty variant: the path is appended as it is, not percent-encoded
NavigationTargetRaw(file_path) ==
    IF file_path = None THEN IndexHtml
    ELSE IndexHtml \o FileQuery \o file_path[1]

\* let url = match &file_path { ... }
NavigationTarget(file_path) ==
    IF file_path = None THEN IndexHtml
    ELSE IndexHtml \o FileQuery \o UrlEncode(file_path[1])

MyNotes == <<"m", "y", " ", "d", "/", "a", ".", "m", "d">>

CreatePaths == {None, Some(MyNotes)}

\* Line 64: the invocation takes its id. Invocations run on the async
\* runtime, so several may be between this line and the build.
CreateAlloc ==
    /\ phase = "running"
    /\ Len(allocated) < MaxCreate
    /\ counter' = FetchAdd(counter).new
    /\ allocated' = Append(allocated, FetchAdd(counter).old)
    /\ calls' = calls \cup {FetchAdd(counter).old}
    /\ last' = Done("create_new_window:fetch_add", <<>>, None, <<>>, <<>>, {},
                    FALSE)
    /\ UNCHANGED <<phase, openFile, windows, destroyed, launch, stored, taken>>

\* Lines 65-89 of the invocation that took window_id: format the label,
\* compute the url from file_path (first read here), build the window, focus
\* it, return the label. The host refuses a label that is in use.
CreateBuild(window_id, file_path, build, focus) ==
    LET window_label == WindowLabel(window_id)
        url == NavigationTarget(file_path)
        built == build = "ok" /\ window_label \notin DOMAIN windows
    IN  /\ phase = "running"
        /\ window_id \in calls
        /\ calls' = calls \ {window_id}
        /\ IF built
           THEN /\ windows' = Insert(windows, window_label, url)
                /\ last' = Done("create_new_window", <<window_id, file_path>>,
                                IF focus = "ok" THEN Ok(window_label)
                                ELSE Err(HostError),
                                <<window_label>>, <<>>,
                                Failed([set_focus |-> focus]), FALSE)
           ELSE /\ last' = Done("create_new_window", <<window_id, file_path>>,
                                Err(HostError), <<>>, <<>>, {"build"}, FALSE)
                /\ UNCHANGED windows
        /\ UNCHANGED <<phase, openFile, counter, allocated, destroyed, launch,
                       stored, taken>>

----------------------------------------------------------------------------
(* transfer_tab_to_window *)

\* faulty variant: source and target are swapped in the payload
TabTransferPayloadSwapped(file_path, source_window, target_window) ==
    [file_path |-> file_path, source_window |-> target_window,
     target_window |-> source_window]

TabTransferPayload(file_path, source_window, target_window) ==
    [file_path |-> file_path, source_window |-> source_window,
     target_window |-> target_window]

WindowSp == <<"W", "i", "n", "d", "o", "w", " ">>

SpNotFound == <<" ", "n", "o", "t", " ", "f", "o", "u", "n", "d">>

\* format!("Window {} not found", target_window)
NotFound(target_window) == WindowSp \o target_window \o SpNotFound

\* labels a caller may name: live ones, former ones, one never allocated
Labels == {Main, WindowLabel(1), WindowLabel(2), WindowLabel(99)}

SourceLabels == {Main, WindowLabel(1)}

TransferPaths == {NotesMd, NotesTxt}

\* faulty variant: a target that is not live falls back to "main"
TransferTargetOrMain(reg, target_window) ==
    IF GetWebviewWindow(reg, target_window) # None
    THEN GetWebviewWindow(reg, target_window)
    ELSE GetWebviewWindow(reg, Main)

\* if let Some(target) = app.get_webview_window(&target_window)
TransferTarget(reg, target_window) == GetWebviewWindow(reg, target_window)

TransferTabToWindow(file_path, source_window, target_window, emit, focus) ==
    LET payload == TabTransferPayload(file_path, source_window, target_window)
        target == TransferTarget(windows, target_window)
        arg == <<file_path, source_window, target_window>>
    IN  /\ phase = "running"
        /\ last' =
             IF target # None
             THEN IF emit = "ok"
                  THEN Done("transfer_tab_to_window", arg,
                            IF focus = "ok" THEN Ok(Unit) ELSE Err(HostError),
                            <<target[1]>>,
                            Emit(target[1], "tab-transfer", payload, emit),
                            Failed([set_focus |-> focus]), FALSE)
                  ELSE Done("transfer_tab_to_window", arg, Err(HostError), <<>>,
                            Emit(target[1], "tab-transfer", payload, emit),
                            {"emit"}, FALSE)
             ELSE Done("transfer_tab_to_window", arg,
                       Err(NotFound(target_window)), <<>>, <<>>, {}, FALSE)
        /\ UNCHANGED <<phase, openFile, counter, windows, calls, allocated,
                       destroyed, launch, stored, taken>>

----------------------------------------------------------------------------
(* tauri_plugin_single_instance::init(|app, args, _cwd| ...) *)

\* faulty variant: without "main" the callback turns to some other live window
RelaunchTargetAny(reg) ==
    IF GetWebviewWindow(reg, Main) # None \/ DOMAIN reg = {}
    THEN GetWebviewWindow(reg, Main)
    ELSE Some(CHOOSE l \in DOMAIN reg : TRUE)

\* app.get_webview_window("main")
RelaunchTarget(reg) == GetWebviewWindow(reg, Main)

\* faulty variant: the callback stores a markdown path as the setup closure does
RelaunchIntakeStores(slot, args) == LaunchIntake(slot, args)

\* OpenFileState after the callback has run: the callback never reaches for
\* app.state::<OpenFileState>(), the path goes out as an event only
RelaunchIntake(slot, args) == slot

\* if args.len() > 1 { ... } else { ... }: which branch of the callback runs
RelaunchBranch(args) ==
    IF Len(args) > 1
    THEN IF IsMarkdownPath(args[2]) THEN "open" ELSE "ignore"
    ELSE "focus"

Relaunch(args, emit, focus) ==
    LET window == RelaunchTarget(windows)
        branch == RelaunchBranch(args)
    IN  /\ phase = "running"
        /\ last' =
             IF window = None \/ branch = "ignore"
             THEN Done("relaunch", args, Unit, <<>>, <<>>, {}, FALSE)
             ELSE IF branch = "open"
                  THEN Done("relaunch", args, Unit, <<window[1]>>,
                            Emit(window[1], "open-file", args[2], emit),
                            Failed([emit |-> emit, set_focus |-> focus]), FALSE)
                  ELSE Done("relaunch", args, Unit, <<window[1]>>, <<>>,
                            Failed([set_focus |-> focus]), FALSE)
        /\ openFile' = RelaunchIntake(openFile, args)
        /\ stored' = IF openFile' = openFile THEN stored
                      ELSE stored \o openFile'
        /\ UNCHANGED <<phase, counter, windows, calls, allocated, destroyed,
                       launch, taken>>

----------------------------------------------------------------------------
(* .run(|app, event| ...): RunEvent::WindowEvent CloseRequested *)

\* faulty variant: the default close is also allowed with two windows
AllowDefaultCloseAtTwo(window_count) == window_count <= 2

\* faulty variant: the comparison is strict
AllowDefaultCloseBelowOne(window_count) == window_count < 1

\* if window_count <= 1 { return; }
AllowDefaultClose(window_count) == window_count <= 1

\* if let Some(window) = app.get_webview_window(&label) { let _ = window.destroy(); }
Destroy(reg, label, outcome) ==
    IF GetWebviewWindow(reg, label) # None /\ outcome = "ok"
    THEN Remove(reg, label)
    ELSE reg

\* What the host does when the handler returns without api.prevent_close():
\* it closes the window the request was for.
DefaultClose(reg, label) ==
    IF GetWebviewWindow(reg, label) # None THEN Remove(reg, label) ELSE reg

\* The handler for a close request for `label`, and the default close the
\* host carries out when the handler allows it: the process exits when that
\* leaves no window.
CloseRequested(label, destroy) ==
    /\ phase = "running"
    /\ IF AllowDefaultClose(WindowCount(windows))
       THEN /\ last' = Done("close_requested", <<label>>, Unit, <<>>, <<>>, {},
                            FALSE)
            /\ windows' = DefaultClose(windows, label)
            /\ phase' = IF DOMAIN windows' = {} THEN "exited" ELSE phase
       ELSE /\ last' = Done("close_requested", <<label>>, Unit, <<>>, <<>>,
                            IF GetWebviewWindow(windows, label) # None
                            THEN Failed([destroy |-> destroy]) ELSE {}, TRUE)
            /\ windows' = Destroy(windows, label, destroy)
            /\ UNCHANGED phase
    /\ destroyed' = destroyed \cup (DOMAIN windows \ DOMAIN windows')
    /\ UNCHANGED <<openFile, counter, calls, allocated, launch, stored, taken>>

----------------------------------------------------------------------------

Next ==
    \/ \E args \in ArgLists : Setup(args)
    \/ GetOpenFilePath
    \/ CreateAlloc
    \/ \E window_id \in calls, file_path \in CreatePaths, build \in Outcomes,
          focus \in Outcomes : CreateBuild(window_id, file_path, build, focus)
    \/ \E file_path \in TransferPaths, source_window \in SourceLabels,
          target_window \in Labels, emit \in Outcomes, focus \in Outcomes :
          TransferTabToWindow(file_path, source_window, target_window, emit, focus)
    \/ \E args \in ArgLists, emit \in Outcomes, focus \in Outcomes :
          Relaunch(args, emit, focus)
    \/ \E label \in DOMAIN windows \cup destroyed, destroy \in Outcomes :
          CloseRequested(label, destroy)

Spec == Init /\ [][Next]_vars

----------------------------------------------------------------------------
(* Properties *)

Live == DOMAIN windows

\* the step just taken was a step of handler `op`
Ran(op) == last'.op = op

\* C1: the ids create_new_window allocates are 1, 2, ... in allocation
\* order, hence strictly increasing and pairwise distinct, and so are their
\* labels; a label that is being assigned is neither live nor the label of
\* a destroyed window, every window other than "main" carries the label of
\* exactly one allocation, and no destroyed label is live again.
C1_IdentitiesDistinctAndIncreasing ==
    /\ \A i \in 1 .. Len(allocated) : allocated[i] = i
    /\ \A i, j \in 1 .. Len(allocated) :
          i < j => /\ allocated[i] < allocated[j]
                   /\ WindowLabel(allocated[i]) # WindowLabel(allocated[j])
    /\ \A id \in calls : WindowLabel(id) \notin Live \cup destroyed
    /\ \A l \in (Live \cup destroyed) \ {Main} :
          Cardinality({i \in 1 .. Len(allocated) :
                          WindowLabel(allocated[i]) = l}) = 1
    /\ Live \cap destroyed = {}

\* window-1 was built and destroyed, and a later call returned window-2
C1_Witness ==
    /\ WindowLabel(1) \in destroyed
    /\ last.op = "create_new_window"
    /\ last.ret = Ok(WindowLabel(2))
    /\ WindowLabel(2) \in Live

\* C2: every value stored in OpenFileState is either still in the slot or
\* was returned by exactly one get_open_file_path call; a call returns what
\* the slot holds and leaves it empty, so a call that follows another call
\* with no store in between returns None.
C2_TakeOnce ==
    /\ [](taken \o openFile = stored)
    /\ [][Ran("get_open_file_path")
            => /\ last'.ret = openFile
               /\ openFile' = None
               /\ (last.op = "get_open_file_path" => last'.ret = None)]_vars

\* a stored value was returned once and the call after it returned None
C2_Witness ==
    /\ stored = <<NotesMd>>
    /\ taken = <<NotesMd>>
    /\ last.op = "get_open_file_path"
    /\ last.ret = None

\* the windows other than `label`, as the registry holds them
Others(label) == [l \in Live \ {label} |-> windows[l]]

\* C3, as claimed: a close request for a live window L with no other window
\* live is left to the default close and ends the process; with two or more
\* windows live, L and only L leaves the registry, the default close is
\* suppressed and the process keeps running.
C3_AsClaimed ==
    [][Ran("close_requested") /\ last'.arg[1] \in Live
        => IF Cardinality(Live) = 1
           THEN ~last'.prevented /\ phase' = "exited"
           ELSE /\ last'.prevented
                /\ phase' = "running"
                /\ windows' = Others(last'.arg[1])]_vars

\* C3, amended: as claimed, except that with two or more windows live L
\* leaves the registry only when the host's destroy succeeds; when it fails
\* the handler discards the error and the registry is unchanged (the default
\* close is suppressed all the same).
C3_CloseRequest ==
    [][Ran("close_requested") /\ last'.arg[1] \in Live
        => IF Cardinality(Live) = 1
           THEN ~last'.prevented /\ phase' = "exited"
           ELSE /\ last'.prevented
                /\ phase' = "running"
                /\ windows' = IF "destroy" \in last'.failed THEN windows
                              ELSE Others(last'.arg[1])]_vars

\* window-1 was closed with "main" live: "main" remains, the process runs
C3_Witness ==
    /\ last.op = "close_requested"
    /\ last.arg = <<WindowLabel(1)>>
    /\ last.prevented
    /\ last.failed = {}
    /\ WindowLabel(1) \in destroyed
    /\ Live = {Main}
    /\ phase = "running"

\* C4: while the registry is non-empty the process has not exited, and a
\* step that takes the registry from one window to none ends the process.
C4_RunningWhileWindows ==
    /\ [](Live # {} => phase # "exited")
    /\ [][Cardinality(Live) = 1 /\ Live' = {} => phase' = "exited"]_vars

\* windows were created and closed, and closing the last one ended the process
C4_Witness ==
    /\ phase = "exited"
    /\ Live = {}
    /\ last.op = "close_requested"
    /\ destroyed = {Main, WindowLabel(1), WindowLabel(2)}

\* C5: transfer_tab_to_window with a target that is not live returns the
\* error "Window <target> not found", delivers no event, requests no focus
\* and leaves the registry, the counter, the open-file slot and the
\* in-flight invocations as they were; nothing is kept for later: a
\* tab-transfer event is only ever delivered by the step of a call whose
\* target is live, to that target.
C5_TransferTargetNotFound ==
    /\ [][Ran("transfer_tab_to_window") /\ last'.arg[3] \notin Live
           => /\ last'.ret = Err(NotFound(last'.arg[3]))
              /\ last'.emitted = <<>>
              /\ last'.focusReq = <<>>
              /\ UNCHANGED <<phase, openFile, counter, windows, calls,
                             allocated, destroyed, stored, taken>>]_vars
    /\ [][\A i \in 1 .. Len(last'.emitted) :
             last'.emitted[i].event = "tab-transfer"
                => /\ Ran("transfer_tab_to_window")
                   /\ last'.arg[3] \in Live
                   /\ last'.emitted[i].to = last'.arg[3]]_vars

\* transferTab("notes.md", "window-1", "window-99") with window-99 not live
C5_Witness ==
    /\ last.op = "transfer_tab_to_window"
    /\ last.arg = <<NotesMd, WindowLabel(1), WindowLabel(99)>>
    /\ last.ret = Err(NotFound(WindowLabel(99)))
    /\ WindowLabel(1) \in Live

\* C6: a transfer_tab_to_window call that returns Ok has delivered exactly
\* one tab-transfer event, to the target window and no other, carrying the
\* call's three arguments, has then requested focus for the target, and has
\* left the registry as it was; no step of any other handler delivers a
\* tab-transfer event, so the payload is never sent again.
C6_TransferDelivery ==
    /\ [][Ran("transfer_tab_to_window") /\ last'.ret = Ok(Unit)
           => /\ last'.arg[3] \in Live
              /\ last'.emitted =
                   <<[to |-> last'.arg[3], event |-> "tab-transfer",
                      payload |-> [file_path |-> last'.arg[1],
                                   source_window |-> last'.arg[2],
                                   target_window |-> last'.arg[3]]]>>
              /\ last'.focusReq = <<last'.arg[3]>>
              /\ windows' = windows]_vars
    /\ [][~Ran("transfer_tab_to_window")
           => \A i \in 1 .. Len(last'.emitted) :
                 last'.emitted[i].event # "tab-transfer"]_vars

\* a tab was transferred from "main" to window-2
C6_Witness ==
    /\ last.op = "transfer_tab_to_window"
    /\ last.arg = <<NotesTxt, Main, WindowLabel(2)>>
    /\ last.ret = Ok(Unit)
    /\ Len(last.emitted) = 1

\* s ends in suffix: some prefix of s followed by suffix is s
HasSuffix(s, suffix) == \E k \in 0 .. Len(s) : SubSeq(s, 1, k) \o suffix = s

\* the argument list carries a first argument ending in .md or .markdown
Qualifies(args) ==
    /\ Len(args) >= 2
    /\ HasSuffix(args[2], ExtMd) \/ HasSuffix(args[2], ExtMarkdown)

OpenFileEvent(path) == [to |-> Main, event |-> "open-file", payload |-> path]

\* C7, as claimed: with "main" live, a relaunch whose argument ends in .md
\* or .markdown delivers exactly one open-file event with that path to
\* "main" and requests focus for "main"; a relaunch with no argument
\* delivers no event and requests focus for "main".
C7_AsClaimed ==
    [][Ran("relaunch") /\ Main \in Live
        => /\ Qualifies(last'.arg)
                => /\ last'.emitted = <<OpenFileEvent(last'.arg[2])>>
                   /\ last'.focusReq = <<Main>>
           /\ Len(last'.arg) = 1
                => /\ last'.emitted = <<>>
                   /\ last'.focusReq = <<Main>>]_vars

\* C7, amended: as claimed, except that the open-file event is delivered
\* only when the host's emit succeeds; when it fails the callback discards
\* the error, nothing is delivered, and focus is requested all the same.
C7_RelaunchOpensFile ==
    [][Ran("relaunch") /\ Main \in Live
        => /\ Qualifies(last'.arg)
                => /\ last'.emitted = IF "emit" \in last'.failed THEN <<>>
                                      ELSE <<OpenFileEvent(last'.arg[2])>>
                   /\ last'.focusReq = <<Main>>
           /\ Len(last'.arg) = 1
                => /\ last'.emitted = <<>>
                   /\ last'.focusReq = <<Main>>]_vars

\* a relaunch with "report.markdown" reached "main"
C7_Witness ==
    /\ last.op = "relaunch"
    /\ last.arg = <<Program, ReportMarkdown>>
    /\ last.emitted = <<OpenFileEvent(ReportMarkdown)>>
    /\ last.focusReq = <<Main>>
    /\ Main \in Live

\* C8, as claimed: with "main" live, a relaunch that carries no qualifying
\* argument (none at all, or one that does not end in .md or .markdown)
\* requests focus for "main".
C8_AsClaimed ==
    [][Ran("relaunch") /\ Main \in Live /\ ~Qualifies(last'.arg)
        => last'.focusReq = <<Main>>]_vars

\* C9: a relaunch while "main" is not live delivers no event, requests no
\* focus, makes no host call that could fail, returns normally, and leaves
\* the registry, the counter, the in-flight invocations and the open-file
\* slot as they were, whatever the argument.
C9_RelaunchWithoutMain ==
    [][Ran("relaunch") /\ Main \notin Live
        => /\ last'.emitted = <<>>
           /\ last'.focusReq = <<>>
           /\ last'.failed = {}
           /\ last'.ret = Unit
           /\ UNCHANGED <<phase, openFile, counter, windows, calls, allocated,
                          destroyed, stored, taken>>]_vars

\* "main" was closed, window-1 remains, a relaunch brought "report.markdown"
C9_Witness ==
    /\ last.op = "relaunch"
    /\ last.arg = <<Program, ReportMarkdown>>
    /\ Main \in destroyed
    /\ Live = {WindowLabel(1)}

\* C10: the setup closure leaves in OpenFileState the first argument when
\* there is one and it ends in .md or .markdown (case-sensitively), and
\* leaves the slot empty otherwise, without an error; so a
\* get_open_file_path call before which none returned a value returns the
\* launch argument in the first case, and every call returns None in the
\* second.
C10_LaunchIntake ==
    /\ [][Ran("setup")
           => /\ last'.ret = Ok(Unit)
              /\ launch' = Some(last'.arg)
              /\ openFile' = IF Qualifies(last'.arg) THEN Some(last'.arg[2])
                             ELSE None]_vars
    /\ [][Ran("get_open_file_path")
           => IF Qualifies(launch[1])
              THEN taken = <<>> => last'.ret = Some(launch[1][2])
              ELSE last'.ret = None]_vars

\* launched with "report.markdown", and the first call returned it
C10_Witness ==
    /\ launch = Some(<<Program, ReportMarkdown>>)
    /\ last.op = "get_open_file_path"
    /\ last.ret = Some(ReportMarkdown)

\* C11, as claimed: a relaunch that carries a markdown path after
\* get_open_file_path has emptied the slot stores that path in
\* OpenFileState, and the next get_open_file_path call returns it.
C11_AsClaimed ==
    /\ [][Ran("relaunch") /\ taken # <<>> /\ openFile = None
                          /\ Qualifies(last'.arg)
           => openFile' = Some(last'.arg[2])]_vars
    /\ [][Ran("get_open_file_path") /\ last.op = "relaunch" /\ taken # <<>>
                                    /\ Qualifies(last.arg)
           => last'.ret = Some(last.arg[2])]_vars

\* C11, amended: OpenFileState is written by launch intake only. A relaunch
\* leaves the slot as it is, whatever its argument (a markdown path goes to
\* "main" as an open-file event, if "main" is live), so the values ever
\* stored are at most the launch argument, and a get_open_file_path call
\* that follows a relaunch made on an emptied slot returns None.
C11_RelaunchDoesNotStore ==
    /\ [][Ran("relaunch") => openFile' = openFile /\ stored' = stored]_vars
    /\ [](stored = IF launch # None /\ Qualifies(launch[1])
                   THEN <<launch[1][2]>> ELSE <<>>)
    /\ [][Ran("get_open_file_path") /\ last.op = "relaunch" /\ openFile = None
           => last'.ret = None]_vars

\* the slot was emptied, then a relaunch brought "report.markdown" to "main"
C11_Witness ==
    /\ last.op = "relaunch"
    /\ last.arg = <<Program, ReportMarkdown>>
    /\ last.emitted = <<OpenFileEvent(ReportMarkdown)>>
    /\ taken = <<NotesMd>>
    /\ openFile = None

\* C12, as claimed: whenever the close-request handler for label L allows
\* the default close (it does not call api.prevent_close()), L is the one
\* live window; requests for a label that an earlier request destroyed
\* included.
C12_AsClaimed ==
    [][Ran("close_requested") /\ ~last'.prevented
        => Live = {last'.arg[1]}]_vars

\* "my d/a.md", percent-encoded
MyNotesEncoded ==
    <<"m", "y", "%", "2", "0", "d", "%", "2", "F", "a", ".", "m", "d">>

\* "window-" followed by the decimal digit of an id below ten
LabelOfDigit(id) == WindowPrefix \o <<DigitChars[id + 1]>>

\* C13: a create_new_window call that returns Ok(label) was given an id the
\* counter allocated, label is "window-" followed by that id, the registry
\* now holds a new window with that label whose navigation target is
\* "index.html?file=" followed by the percent-encoded file_path when one was
\* given and "index.html" otherwise, focus was requested for that window,
\* and the windows that were live are live as before.
C13_CreateWindowOk ==
    [][Ran("create_new_window") /\ last'.ret[1] = "Ok"
        => LET id == last'.arg[1]
               file_path == last'.arg[2]
               label == last'.ret[2]
           IN  /\ \E i \in 1 .. Len(allocated) : allocated[i] = id
               /\ id \in calls /\ id \notin calls'
               /\ label = LabelOfDigit(id)
               /\ label \notin Live
               /\ Live' = Live \cup {label}
               /\ windows'[label] =
                    IF file_path = None THEN IndexHtml
                    ELSE IF file_path = Some(MyNotes)
                         THEN IndexHtml \o FileQuery \o MyNotesEncoded
                         ELSE <<>>
               /\ last'.focusReq = <<label>>
               /\ \A l \in Live : windows'[l] = windows[l]]_vars

\* window-2 was created for "my d/a.md" beside "main" and window-1
C13_Witness ==
    /\ last.op = "create_new_window"
    /\ last.arg = <<2, Some(MyNotes)>>
    /\ last.ret = Ok(LabelOfDigit(2))
    /\ Live = {Main, LabelOfDigit(1), LabelOfDigit(2)}
    /\ windows[LabelOfDigit(2)] = IndexHtml \o FileQuery \o MyNotesEncoded

\* the step just taken was a command that returned an error
Failing(op) == Ran(op) /\ last'.ret[1] = "Err"

\* C14, as claimed: a create_new_window or transfer_tab_to_window call that
\* returns an error leaves the windows other than its caller as they were:
\* the set of live windows is the same (the caller of create_new_window is
\* never the window being created), no window other than the caller (for
\* transfer_tab_to_window, the live source window) receives an event, and
\* OpenFileState is unchanged.
C14_AsClaimed ==
    /\ [][Failing("create_new_window")
           => /\ Live' = Live
              /\ last'.emitted = <<>>
              /\ openFile' = openFile]_vars
    /\ [][Failing("transfer_tab_to_window") /\ last'.arg[2] \in Live
           => /\ Live' = Live
              /\ \A i \in 1 .. Len(last'.emitted) :
                    last'.emitted[i].to = last'.arg[2]
              /\ openFile' = openFile]_vars

\* C15, as claimed: a create_new_window call that returns an error has added
\* no window: the registry is as it was before the call.
C15_AsClaimed ==
    [][Failing("create_new_window") => windows' = windows]_vars

\* C16, as claimed: a transfer_tab_to_window call that returns an error has
\* delivered no tab-transfer event.
C16_AsClaimed ==
    [][Failing("transfer_tab_to_window") => last'.emitted = <<>>]_vars

\* s begins with prefix
HasPrefix(s, prefix) ==
    Len(s) >= Len(prefix) /\ SubSeq(s, 1, Len(prefix)) = prefix

\* C17: once "main" has been destroyed it is never live again: every label
\* create_new_window returns begins with "window-" and is not "main", no
\* step puts "main" back into the registry, and from then on a relaunch
\* delivers no event and requests no focus, whatever its argument.
C17_MainNeverReturns ==
    /\ [][(Main \in destroyed) => (Main \notin Live')]_vars
    /\ [][Ran("create_new_window") /\ last'.ret[1] = "Ok"
           => /\ HasPrefix(last'.ret[2], WindowPrefix)
              /\ last'.ret[2] # Main
              /\ Live' \ Live = {last'.ret[2]}]_vars
    /\ [][Ran("relaunch") /\ Main \in destroyed
           => last'.emitted = <<>> /\ last'.focusReq = <<>>]_vars

\* "main" was closed, window-1 and window-2 are live, and a relaunch with
\* "notes.md" found nobody
C17_Witness ==
    /\ Main \in destroyed
    /\ Live = {LabelOfDigit(1), LabelOfDigit(2)}
    /\ last.op = "relaunch"
    /\ last.arg = <<Program, NotesMd>>
    /\ last.emitted = <<>>

====
